---- MODULE Spec2Model ----
(***************************************************************************)
(* Model of enrich_refuges.py: the enrichment of a GeoJSON collection of   *)
(* refuges.  Python values are tagged records, strings are sequences of    *)
(* one-character strings (URLs: sequences of lexical tokens), the thread   *)
(* pool is the set of tasks being run, and the driver (main) is a program  *)
(* counter over the statements of main().                                  *)
(***************************************************************************)
EXTENDS Integers, Sequences, FiniteSets, TLC

(***************************************************************************)
(* Python values                                                           *)
(***************************************************************************)
Absent == [t |-> "absent"]
PyNone == [t |-> "none"]
PyStr(s) == [t |-> "str", s |-> s]
PyInt(n) == [t |-> "int", n |-> n]
PyBool(b) == [t |-> "bool", b |-> b]
PyFloat(w, f) == [t |-> "float", whole |-> w, frac |-> f]
PyList(items) == [t |-> "list", items |-> items]
PyDict(d) == [t |-> "dict", d |-> d]
\* a str whose first character is "{": wellformed says whether json.loads
\* accepts it, doc is the object it decodes to
PyJsonText(wellformed, doc) == [t |-> "jsontext", wellformed |-> wellformed, doc |-> doc]

EmptyDict == PyDict(<<>>)

IsDict(v) == v.t = "dict"

\* bool(v)
Truthy(v) ==
  CASE v.t = "none" -> FALSE
    [] v.t = "absent" -> FALSE
    [] v.t = "str" -> v.s # <<>>
    [] v.t = "int" -> v.n # 0
    [] v.t = "bool" -> v.b
    [] v.t = "float" -> ~(v.whole = 0 /\ v.frac = 0)
    [] v.t = "list" -> v.items # <<>>
    [] v.t = "dict" -> DOMAIN v.d # {}
    [] v.t = "jsontext" -> TRUE

\* a or b
Or(a, b) == IF Truthy(a) THEN a ELSE b

\* dict.get(key): None when the key is missing
DictGet(dv, key) == IF key \in DOMAIN dv.d THEN dv.d[key] ELSE PyNone

Digit == {"0", "1", "2", "3", "4", "5", "6", "7", "8", "9"}
DigitVal(c) ==
  CASE c = "0" -> 0 [] c = "1" -> 1 [] c = "2" -> 2 [] c = "3" -> 3 [] c = "4" -> 4
    [] c = "5" -> 5 [] c = "6" -> 6 [] c = "7" -> 7 [] c = "8" -> 8 [] c = "9" -> 9
DigitChar(n) ==
  CASE n = 0 -> "0" [] n = 1 -> "1" [] n = 2 -> "2" [] n = 3 -> "3" [] n = 4 -> "4"
    [] n = 5 -> "5" [] n = 6 -> "6" [] n = 7 -> "7" [] n = 8 -> "8" [] n = 9 -> "9"
Whitespace == {" ", "\t", "\n"}

RECURSIVE NatToStr(_)
NatToStr(n) == IF n < 10 THEN <<DigitChar(n)>> ELSE NatToStr(n \div 10) \o <<DigitChar(n % 10)>>

\* str(v)
ToStr(v) ==
  CASE v.t = "str" -> v.s
    [] v.t = "int" -> IF v.n < 0 THEN <<"-">> \o NatToStr(0 - v.n) ELSE NatToStr(v.n)
    [] v.t = "bool" -> IF v.b THEN <<"T", "r", "u", "e">> ELSE <<"F", "a", "l", "s", "e">>
    [] v.t = "float" -> NatToStr(v.whole) \o <<".">> \o NatToStr(v.frac)
    [] v.t = "none" -> <<"N", "o", "n", "e">>
    [] v.t = "list" -> <<"[", "]">>
    [] v.t = "dict" -> <<"{", "}">>
    [] v.t = "jsontext" -> <<"{", "}">>

RECURSIVE LStrip(_)
LStrip(s) == IF s # <<>> /\ Head(s) \in Whitespace THEN LStrip(Tail(s)) ELSE s
RECURSIVE RStrip(_)
RStrip(s) ==
  IF s # <<>> /\ s[Len(s)] \in Whitespace THEN RStrip(SubSeq(s, 1, Len(s) - 1)) ELSE s
\* str.strip()
Strip(s) == RStrip(LStrip(s))

RECURSIVE DigitsVal(_, _)
DigitsVal(s, acc) == IF s = <<>> THEN acc ELSE DigitsVal(Tail(s), 10 * acc + DigitVal(Head(s)))
AllDigits(s) == s # <<>> /\ \A i \in 1..Len(s) : s[i] \in Digit
\* int(s) for a str: surrounding whitespace and one sign are accepted;
\* anything else is a ValueError (ok = FALSE)
ParseInt(s) ==
  LET b == Strip(s)
      signed == b # <<>> /\ Head(b) \in {"+", "-"}
      digits == IF signed THEN Tail(b) ELSE b
  IN IF AllDigits(digits)
       THEN [ok |-> TRUE,
             n |-> IF signed /\ Head(b) = "-" THEN 0 - DigitsVal(digits, 0)
                   ELSE DigitsVal(digits, 0)]
       ELSE [ok |-> FALSE, n |-> 0]

\* d[key] = value on a dict
DictSet(dv, key, value) ==
  PyDict([k \in DOMAIN dv.d \cup {key} |-> IF k = key THEN value ELSE dv.d[k]])

(***************************************************************************)
(* summarize_amenities                                                     *)
(***************************************************************************)
\* lines 82-88: the facility structure as the code resolves it
ResolveInfo(props) ==
  LET info == Or(DictGet(props, "info_comp"), EmptyDict)
  IN IF info.t = "jsontext"
       THEN (IF info.wellformed THEN info.doc ELSE EmptyDict)
       ELSE info

\* line 89: getv raises AttributeError unless info has a get method
GetvRaises(info) == ~IsDict(info)

\* getv without the .strip()
GetvNoStrip(info, key) ==
  LET raw == DictGet(info, key)
      entry == IF IsDict(raw) THEN Or(raw, EmptyDict) ELSE PyDict([valeur |-> raw])
  IN ToStr(Or(DictGet(entry, "valeur"), PyStr(<<>>)))
\* line 89: the lambda getv, for an info that is a dict
Getv(info, key) ==
  LET raw == DictGet(info, key)
      entry == IF IsDict(raw) THEN Or(raw, EmptyDict) ELSE PyDict([valeur |-> raw])
  IN Strip(ToStr(Or(DictGet(entry, "valeur"), PyStr(<<>>))))

\* lines 101-106: the capacity structure as the code resolves it
ResolvePlaces(props) ==
  LET places == Or(DictGet(props, "places"), EmptyDict)
  IN IF places.t = "jsontext"
       THEN (IF places.wellformed THEN places.doc ELSE EmptyDict)
       ELSE places

\* lines 107-110: int(str(... or "0")), 0 on any exception
Capacity(props) ==
  LET places == ResolvePlaces(props)
      raw == IF IsDict(places) THEN DictGet(places, "valeur") ELSE places
      parsed == ParseInt(ToStr(Or(raw, PyStr(<<"0">>))))
  IN IF parsed.ok THEN parsed.n ELSE 0

\* couchage and feu also read from info_comp
AmenitiesFromInput(props) ==
  LET info == ResolveInfo(props)
      flag(key) == Getv(info, key) = <<"1">>
      cap == Capacity(props)
  IN [eau |-> flag("eau"),
      bois |-> flag("bois"),
      poele |-> flag("poele"),
      latrines |-> flag("latrines"),
      cheminee |-> flag("cheminee"),
      couvertures |-> flag("couvertures"),
      couchage |-> cap > 0 \/ flag("couvertures") \/ flag("couchage"),
      feu |-> flag("poele") \/ flag("cheminee") \/ flag("feu")]
\* lines 92-114: the amenities dict
Amenities(props) ==
  LET info == ResolveInfo(props)
      flag(key) == Getv(info, key) = <<"1">>
      cap == Capacity(props)
  IN [eau |-> flag("eau"),
      bois |-> flag("bois"),
      poele |-> flag("poele"),
      latrines |-> flag("latrines"),
      cheminee |-> flag("cheminee"),
      couvertures |-> flag("couvertures"),
      couchage |-> cap > 0 \/ flag("couvertures"),
      feu |-> flag("poele") \/ flag("cheminee")]

RECURSIVE Join(_, _)
\* sep.join(tags)
Join(sep, tags) ==
  IF tags = <<>> THEN <<>>
  ELSE IF Len(tags) = 1 THEN <<tags[1]>>
  ELSE <<tags[1], sep>> \o Join(sep, Tail(tags))

\* a tag for bois as well
AmenTextWithBois(amenities) ==
  LET tags == (IF amenities.couchage THEN <<"couchage">> ELSE <<>>)
              \o (IF amenities.feu THEN <<"feu">> ELSE <<>>)
              \o (IF amenities.bois THEN <<"bois">> ELSE <<>>)
              \o (IF amenities.eau THEN <<"eau">> ELSE <<>>)
              \o (IF amenities.latrines THEN <<"latrines">> ELSE <<>>)
  IN IF tags # <<>> THEN Join(" . ", tags) ELSE <<"--">>
\* lines 116-126: the display text, a sequence of labels and separators
AmenText(amenities) ==
  LET tags == (IF amenities.couchage THEN <<"couchage">> ELSE <<>>)
              \o (IF amenities.feu THEN <<"feu">> ELSE <<>>)
              \o (IF amenities.eau THEN <<"eau">> ELSE <<>>)
              \o (IF amenities.latrines THEN <<"latrines">> ELSE <<>>)
  IN IF tags # <<>> THEN Join(" . ", tags) ELSE <<"--">>

\* lines 80-127: what a call of summarize_amenities(props) does
summarize_amenities(props) ==
  IF GetvRaises(ResolveInfo(props))
    THEN [raised |-> TRUE, exc |-> "AttributeError"]
    ELSE [raised |-> FALSE,
          amenities |-> Amenities(props),
          text |-> AmenText(Amenities(props))]

(***************************************************************************)
(* normalize_abs and extract_photos_from_html.  A URL is a sequence of     *)
(* lexical tokens: "https:", "//", a host, "/", a path segment, a run of   *)
(* digits (one token per digit), an extension.                             *)
(***************************************************************************)
BASE == <<"https:", "//", "www.refuges.info">>

StartsWith(s, prefix) ==
  Len(s) >= Len(prefix) /\ SubSeq(s, 1, Len(prefix)) = prefix

\* a token that urlparse reads as a scheme
SchemeTokens == {"https:", "http:", "HTTP:", "HTTPS:", "ftp:", "mailto:"}

RECURSIVE RemoveDotSegments(_, _)
\* the path resolution of urljoin: "." is dropped, ".." drops the segment before it
RemoveDotSegments(path, acc) ==
  IF path = <<>> THEN acc
  ELSE IF Head(path) = "." THEN
    RemoveDotSegments(IF Len(path) > 1 /\ path[2] = "/" THEN Tail(Tail(path)) ELSE Tail(path), acc)
  ELSE IF Head(path) = ".." THEN
    RemoveDotSegments(IF Len(path) > 1 /\ path[2] = "/" THEN Tail(Tail(path)) ELSE Tail(path),
                      IF Len(acc) >= 2 THEN SubSeq(acc, 1, Len(acc) - 2) ELSE <<>>)
  ELSE RemoveDotSegments(Tail(path), Append(acc, Head(path)))

\* urljoin for a reference that has no scheme and no host: the path is
\* resolved against the root of base
JoinPath(base, ref) ==
  IF ref = <<>> THEN base
  ELSE IF Head(ref) \in {"?", "#"} THEN base \o ref
  ELSE IF Head(ref) = "/" THEN base \o <<"/">> \o RemoveDotSegments(Tail(ref), <<>>)
  ELSE base \o <<"/">> \o RemoveDotSegments(ref, <<>>)

\* urljoin(base, url) for an https base without a path and a non-empty url: a
\* url of another scheme is returned as it is, the scheme of base is dropped
\* from the url (and written in lower case), a url with a host keeps its
\* host and path
urljoin(base, url) ==
  IF Head(url) \in SchemeTokens
    THEN IF Head(url) \notin {"https:", "HTTPS:"} THEN url
         ELSE IF Len(url) >= 3 /\ url[2] = "//"
           THEN <<"https:">> \o Tail(url)
         ELSE JoinPath(base, Tail(url))
  ELSE JoinPath(base, url)

\* a url that is not absolute is returned as it is
NormalizeAbsNoJoin(url) ==
  IF url = <<>> THEN url
  ELSE IF StartsWith(url, <<"http:", "//">>) \/ StartsWith(url, <<"https:", "//">>) THEN url
  ELSE IF StartsWith(url, <<"//">>) THEN <<"https:">> \o url
  ELSE url
\* lines 45-52
normalize_abs(url) ==
  IF url = <<>> THEN url
  ELSE IF StartsWith(url, <<"http:", "//">>) \/ StartsWith(url, <<"https:", "//">>) THEN url
  ELSE IF StartsWith(url, <<"//">>) THEN <<"https:">> \o url
  ELSE urljoin(BASE, url)

\* re.IGNORECASE on the tokens that carry letters
Lower(tok) ==
  CASE tok = "PHOTOS_POINTS" -> "photos_points"
    [] tok = "-REDUITE" -> "-reduite"
    [] tok = ".JPEG" -> ".jpeg"
    [] tok = ".JPG" -> ".jpg"
    [] OTHER -> tok

\* lines 39-43: what follows the digits in each pattern
PHOTO_PATTERNS == << <<"-reduite", ".jpeg">>, <<".jpg">>, <<".jpeg">> >>

\* pat.search(src): /photos_points/ \d+ suffix, anywhere in src
PatSearch(suffix, src) ==
  \E p \in 1..Len(src) : \E n \in 1..Len(src) :
    /\ p + 2 + n + Len(suffix) <= Len(src)
    /\ src[p] = "/" /\ Lower(src[p + 1]) = "photos_points" /\ src[p + 2] = "/"
    /\ \A j \in 1..n : src[p + 2 + j] \in Digit
    /\ \A j \in 1..Len(suffix) : Lower(src[p + 2 + n + j]) = suffix[j]

\* lines 59-62: the loop over the patterns appends src at most once
MatchesPhoto(src) == \E k \in 1..Len(PHOTO_PATTERNS) : PatSearch(PHOTO_PATTERNS[k], src)

\* (img.get(attr) or "").strip()
ImgAttr(img, attr) == Strip(Or(DictGet(img, attr), PyStr(<<>>)).s)

RECURSIVE ScanImgs(_, _)
\* lines 57-62 (attr = "src") and 64-69 (attr = "data-src")
ScanImgs(imgs, attr) ==
  IF imgs = <<>> THEN <<>>
  ELSE (IF MatchesPhoto(ImgAttr(Head(imgs), attr)) THEN <<ImgAttr(Head(imgs), attr)>> ELSE <<>>)
       \o ScanImgs(Tail(imgs), attr)

RECURSIVE UniqAbs(_, _, _)
\* lines 71-77
UniqAbs(urls, seen, uniq) ==
  IF urls = <<>> THEN uniq
  ELSE LET absu == normalize_abs(Head(urls))
       IN IF absu \notin seen
            THEN UniqAbs(Tail(urls), seen \cup {absu}, Append(uniq, absu))
            ELSE UniqAbs(Tail(urls), seen, uniq)

\* the data-src pass before the src pass
ExtractDataSrcFirst(html) ==
  UniqAbs(ScanImgs(html, "data-src") \o ScanImgs(html, "src"), {}, <<>>)
\* lines 54-78; html is the sequence of img elements of the parsed document
extract_photos_from_html(html) ==
  UniqAbs(ScanImgs(html, "src") \o ScanImgs(html, "data-src"), {}, <<>>)

Img(src, data_src) == PyDict([k \in {"src", "data-src"} |-> IF k = "src" THEN src ELSE data_src])

(***************************************************************************)
(* The network: what session.get answers for a page URL                    *)
(***************************************************************************)
UrlUp == BASE \o <<"/", "point", "/", "1">>
UrlDown == BASE \o <<"/", "point", "/", "2">>
UrlFlaky == BASE \o <<"/", "point", "/", "3">>

PhotoA == <<"/", "photos_points", "/", "1", "2", "-reduite", ".jpeg">>
PhotoB == <<"//", "www.refuges.info", "/", "photos_points", "/", "7", ".jpg">>
PageNone == <<Img(PyStr(<<"/", "images", "/", "logo", ".png">>), PyNone)>>
PageOne == <<Img(PyStr(PhotoA), PyNone)>>
PageTwo == <<Img(PyNone, PyStr(PhotoB)), Img(PyStr(PhotoA), PyStr(PhotoA))>>

\* line 133-134: a response with its ok flag, status and text, or an exception
\* raised by session.get
Response(status, text) == [raised |-> FALSE, status |-> status, text |-> text, exc |-> "none"]
Fault(e) == [raised |-> TRUE, status |-> 0, text |-> <<>>, exc |-> e]
\* requests: ok unless 400 <= status < 600
RespOk(r) == ~r.raised /\ ~(r.status >= 400 /\ r.status < 600)

\* the answers the server of a URL can give to one GET
Responses(url) ==
  CASE url = UrlUp -> {Response(200, PageOne)}
    [] url = UrlDown -> {Response(503, <<>>)}
    [] OTHER -> {Response(200, PageNone), Response(200, PageTwo), Response(404, <<>>),
                 Fault("ConnectionError"), Fault("Timeout")}

(***************************************************************************)
(* Bounds and program constants                                            *)
(***************************************************************************)
MaxFeatures == 3
MaxConcurrency == 2
MaxCap == 2
\* range(retries + 1): one attempt too many
RetriesOffByOne == 3 + 1
\* line 129: retries=3, backoff=0.8 (times are in tenths of a second)
Retries == 3
Backoff == 8
\* line 174: the default --delay, 0.4
DefaultDelay == 4

RECURSIVE Pow2(_)
Pow2(n) == IF n = 0 THEN 1 ELSE 2 * Pow2(n - 1)

(***************************************************************************)
(* State                                                                   *)
(***************************************************************************)
VARIABLES
  args,       \* the parsed command line: concurrency, delay, max
  infile,     \* the features of the input file, as loaded (never changed)
  data,       \* the loaded document; data.features is Absent, None or a list of feature ids
  heap,       \* the feature objects: id -> the value of feat["properties"] (Absent: no key)
  pc,         \* where main() is
  exc,        \* the exception main() ended with, "none" otherwise
  feats,      \* main's feats: a list of feature ids
  futs,       \* main's futs: one future per submitted feature
  frames,     \* the process_feature call of each future
  ac,         \* the as_completed generator: installed waiter, futures still to yield
  out_feats,  \* main's out_feats
  outfile,    \* the output file
  http_log,   \* per future: the outcome of each GET issued
  sleep_log,  \* per future: the time.sleep calls made, in order
  call        \* a direct call of one function: its name, argument and result

vars == <<call, args, infile, data, heap, pc, exc, feats, futs, frames, ac, out_feats, outfile,
          http_log, sleep_log>>

NoErr == [exc |-> "none", arg |-> 0, at |-> 0]
\* an exception object; at is the attempt that created it (its identity)
Err(name, arg, at) == [exc |-> name, arg |-> arg, at |-> at]

\* a process_feature call: where it is, the locals of fetch_point_html (i,
\* last_err), how the fetch ended (fetched: "no", "returned" with html, "raised"
\* with fetch_exc) and the local photos
NewFrame == [pc |-> "queued", i |-> 0, last_err |-> NoErr, fetched |-> "no", html |-> <<>>,
             fetch_exc |-> NoErr, photos |-> <<>>]

NoCall == [fn |-> "none"]

NotWritten == [written |-> FALSE, features |-> <<>>]

\* max_workers left to its default, min(32, cpu_count + 4), on one cpu
PoolSizeDefault == 1 + 4
\* line 188: max_workers
PoolSize == IF args.concurrency > 1 THEN args.concurrency ELSE 1

\* a future counts as done as soon as a worker has taken it
IsFinishedOrRunning(k) == futs[k].state # "PENDING"
\* Future.done(), as as_completed and the shutdown of the pool see it
IsFinished(k) == futs[k].state = "FINISHED"

Running == {k \in 1..Len(futs) : futs[k].state = "RUNNING"}
Pending == {k \in 1..Len(futs) : futs[k].state = "PENDING"}

\* the feature a future works on
FeatOf(k) == feats[k]
\* line 143: props = feat.get("properties") or {}
PropsOf(id) == Or(IF heap[id] = Absent THEN PyNone ELSE heap[id], EmptyDict)
\* the site's home page as the URL of a feature that has none
PageUrlDefault(props) == Or(Or(DictGet(props, "lien"), DictGet(props, "url")), PyStr(BASE))
\* line 144: page_url = props.get("lien") or props.get("url") or ""
PageUrl(props) == Or(Or(DictGet(props, "lien"), DictGet(props, "url")), PyStr(<<>>))

(***************************************************************************)
(* Inputs                                                                  *)
(***************************************************************************)
GoodInfo == PyDict([eau |-> PyDict([valeur |-> PyStr(<<"1">>)]),
                    poele |-> PyDict([valeur |-> PyStr(<<"0">>)])])
Name(c) == PyStr(<<c>>)

BagNoUrl == PyDict([nom |-> Name("a"), places |-> PyDict([valeur |-> PyInt(4)])])
BagUp == PyDict([nom |-> Name("b"), lien |-> PyStr(UrlUp), info_comp |-> GoodInfo])
\* info_comp is a plain string, and the page is down
BagBadInfo == PyDict([nom |-> Name("d"), url |-> PyStr(UrlDown),
                      info_comp |-> PyStr(<<"o", "u", "i">>)])

PipelineBags == {BagNoUrl, BagUp, BagBadInfo}

Delays == {0, DefaultDelay, 0 - DefaultDelay}

Lists(S, n) == UNION {[1..m -> S] : m \in 0..n}

\* the documents json.load can return: features missing, null, or a list
Documents(Bags) ==
  {[features |-> Absent], [features |-> PyNone]}
    \cup {[features |-> PyList(b)] : b \in Lists(Bags, MaxFeatures)}

ArgSpace == [concurrency : {0 - 1, 0, MaxConcurrency}, delay : Delays, max : {0, 1, MaxCap}]

NumFeatures(doc) == IF doc.features.t = "list" THEN Len(doc.features.items) ELSE 0

\* lines 170-179, 185-186: the state when main() reaches line 181
InitWith(Docs, Args) ==
  /\ args \in Args
  /\ infile \in Docs
  /\ data = IF infile.features.t = "list"
              THEN [features |-> PyList([i \in 1..Len(infile.features.items) |-> i])]
              ELSE infile
  /\ heap = IF infile.features.t = "list" THEN infile.features.items ELSE <<>>
  /\ pc = "slice"
  /\ exc = "none"
  /\ feats = <<>>
  /\ futs = <<>>
  /\ frames = <<>>
  /\ ac = [installed |-> FALSE, finished |-> {}, queue |-> <<>>]
  /\ out_feats = <<>>
  /\ outfile = NotWritten
  /\ http_log = <<>>
  /\ sleep_log = <<>>
  /\ call = NoCall

Init == InitWith(Documents(PipelineBags), ArgSpace)

(***************************************************************************)
(* main()                                                                  *)
(***************************************************************************)
\* lines 181-183
Slice ==
  /\ pc = "slice"
  /\ LET all == Or(data.features, PyList(<<>>)).items
     IN feats' = IF args.max # 0 /\ args.max > 0
                   THEN SubSeq(all, 1, IF args.max < Len(all) THEN args.max ELSE Len(all))
                   ELSE all
  /\ pc' = "submit"
  /\ UNCHANGED <<call, args, infile, data, heap, exc, futs, frames, ac, out_feats, outfile,
                 http_log, sleep_log>>

\* lines 190-191: one ex.submit
Submit ==
  /\ pc = "submit"
  /\ Len(futs) < Len(feats)
  /\ futs' = Append(futs, [state |-> "PENDING", exc |-> "none"])
  /\ frames' = Append(frames, NewFrame)
  /\ http_log' = Append(http_log, <<>>)
  /\ sleep_log' = Append(sleep_log, <<>>)
  /\ UNCHANGED <<call, args, infile, data, heap, pc, exc, feats, ac, out_feats, outfile>>

\* line 193: the first next() of as_completed takes the futures that are already
\* finished (a set) and installs a waiter on the others
AsCompleted ==
  /\ pc = "submit"
  /\ Len(futs) = Len(feats)
  /\ ac' = [installed |-> TRUE,
            finished |-> {k \in 1..Len(futs) : IsFinished(k)},
            queue |-> <<>>]
  /\ pc' = "collect"
  /\ UNCHANGED <<call, args, infile, data, heap, exc, feats, futs, frames, out_feats, outfile,
                 http_log, sleep_log>>

\* line 194: out_feats.append(fut.result()), or the exception of the future
Result(k) ==
  IF futs[k].exc = "none"
    THEN /\ out_feats' = Append(out_feats, FeatOf(k))
         /\ UNCHANGED <<pc, exc>>
    ELSE /\ pc' = "unwind"
         /\ exc' = futs[k].exc
         /\ UNCHANGED out_feats

\* lines 193-194: as_completed yields a future that was finished at its start
\* (in the order of a set of objects)
CollectFinished ==
  /\ pc = "collect"
  /\ \E k \in ac.finished :
       /\ ac' = [ac EXCEPT !.finished = @ \ {k}]
       /\ Result(k)
  /\ UNCHANGED <<call, args, infile, data, heap, feats, futs, frames, outfile, http_log, sleep_log>>

\* lines 193-194: then the others, in the order they finish
CollectNext ==
  /\ pc = "collect"
  /\ ac.finished = {}
  /\ ac.queue # <<>>
  /\ ac' = [ac EXCEPT !.queue = Tail(@)]
  /\ Result(Head(ac.queue))
  /\ UNCHANGED <<call, args, infile, data, heap, feats, futs, frames, outfile, http_log, sleep_log>>

AllFinished == \A k \in 1..Len(futs) : IsFinished(k)

\* line 188: leaving the with block, ThreadPoolExecutor.__exit__ waits for
\* every submitted work item; an exception then leaves main()
Shutdown ==
  /\ \/ pc = "collect" /\ Len(out_feats) = Len(futs) /\ pc' = "assign"
     \/ pc = "unwind" /\ pc' = "raised"
  /\ AllFinished
  /\ UNCHANGED <<call, args, infile, data, heap, exc, feats, futs, frames, ac, out_feats, outfile,
                 http_log, sleep_log>>

\* lst = new: the features after the cap are lost
SliceAssignDropsTail(lst, n, new) == new
\* line 198: lst[:n] = new
SliceAssign(lst, n, new) == new \o SubSeq(lst, n + 1, Len(lst))

\* lines 197-200
Assign ==
  /\ pc = "assign"
  /\ IF args.max # 0 /\ args.max > 0
       THEN IF data.features = Absent
              THEN pc' = "raised" /\ exc' = "KeyError" /\ UNCHANGED data
            ELSE IF data.features.t # "list"
              THEN pc' = "raised" /\ exc' = "TypeError" /\ UNCHANGED data
            ELSE /\ data' = [data EXCEPT !.features =
                               PyList(SliceAssign(@.items, Len(out_feats), out_feats))]
                 /\ pc' = "write"
                 /\ UNCHANGED exc
       ELSE /\ data' = [data EXCEPT !.features = PyList(out_feats)]
            /\ pc' = "write"
            /\ UNCHANGED exc
  /\ UNCHANGED <<call, args, infile, heap, feats, futs, frames, ac, out_feats, outfile,
                 http_log, sleep_log>>

\* what json.dump writes for a feature: its identity and its properties
Dump(id) == [id |-> id, properties |-> heap[id]]

\* lines 202-205
WriteOutput ==
  /\ pc = "write"
  /\ outfile' = [written |-> TRUE,
                 features |-> [i \in 1..Len(data.features.items) |-> Dump(data.features.items[i])]]
  /\ pc' = "done"
  /\ UNCHANGED <<call, args, infile, data, heap, exc, feats, futs, frames, ac, out_feats,
                 http_log, sleep_log>>

(***************************************************************************)
(* The workers: process_feature and fetch_point_html                       *)
(***************************************************************************)
\* the future of a work item gets its result or its exception; a waiter
\* installed by as_completed records it
Finish(k, e) ==
  /\ futs' = [futs EXCEPT ![k] = [state |-> "FINISHED", exc |-> e]]
  /\ ac' = IF ac.installed THEN [ac EXCEPT !.queue = Append(@, k)] ELSE ac

\* a pool thread takes the oldest queued work item and runs lines 143-146
StartTask(k) ==
  /\ futs[k].state = "PENDING"
  /\ \A j \in Pending : k <= j
  /\ Cardinality(Running) < PoolSize
  /\ IF ~Truthy(PageUrl(PropsOf(FeatOf(k))))
       THEN /\ Finish(k, "none")
            /\ frames' = [frames EXCEPT ![k].pc = "returned"]
       ELSE /\ futs' = [futs EXCEPT ![k].state = "RUNNING"]
            /\ frames' = [frames EXCEPT ![k].pc = "get"]
            /\ UNCHANGED ac
  /\ UNCHANGED <<call, args, infile, data, heap, pc, exc, feats, out_feats, outfile,
                 http_log, sleep_log>>

\* line 136 and line 138: the error an attempt leaves in last_err
AttemptError(r, i) ==
  IF r.raised THEN Err(r.exc, 0, i) ELSE Err("RuntimeError", r.status, i)

\* lines 132-138, and lines 149-150 when the attempt succeeds
FetchAttempt(k) ==
  /\ frames[k].pc = "get"
  /\ frames[k].i < Retries
  /\ \E r \in Responses(PageUrl(PropsOf(FeatOf(k))).s) :
       /\ http_log' = [http_log EXCEPT ![k] = Append(@, r)]
       /\ IF RespOk(r)
            THEN frames' = [frames EXCEPT ![k].pc = "merge",
                                          ![k].fetched = "returned",
                                          ![k].html = r.text,
                                          ![k].photos = extract_photos_from_html(r.text)]
            ELSE frames' = [frames EXCEPT ![k].pc = "backoff",
                                          ![k].last_err = AttemptError(r, frames[k].i)]
  /\ UNCHANGED <<call, args, infile, data, heap, pc, exc, feats, futs, ac, out_feats, outfile,
                 sleep_log>>

\* lines 139-140, and lines 151-152 when the retries are exhausted
FetchBackoff(k) ==
  /\ frames[k].pc = "backoff"
  /\ sleep_log' = [sleep_log EXCEPT ![k] = Append(@, Backoff * Pow2(frames[k].i))]
  /\ IF frames[k].i + 1 < Retries
       THEN frames' = [frames EXCEPT ![k].pc = "get", ![k].i = @ + 1]
       ELSE frames' = [frames EXCEPT ![k].pc = "merge",
                                     ![k].i = @ + 1,
                                     ![k].fetched = "raised",
                                     ![k].fetch_exc = frames[k].last_err,
                                     ![k].photos = <<>>]
  /\ UNCHANGED <<call, args, infile, data, heap, pc, exc, feats, futs, ac, out_feats, outfile,
                 http_log>>

\* line 162
Timestamp == PyStr(<<"n", "o", "w", "Z">>)

\* lines 157-162: the property bag after the writes
Enriched(props, photos, summary) ==
  LET p1 == DictSet(props, "photos", PyList(photos))
      p2 == IF photos # <<>> THEN DictSet(p1, "thumbnail", PyStr(photos[1])) ELSE p1
      p3 == DictSet(p2, "amenities", PyDict(summary.amenities))
      p4 == DictSet(p3, "amenities_text", PyStr(summary.text))
  IN DictSet(p4, "photos_at", Timestamp)

\* lines 154-165, and line 167 when there is no delay
Merge(k) ==
  /\ frames[k].pc = "merge"
  /\ LET props == PropsOf(FeatOf(k))
         summary == summarize_amenities(props)
     IN IF summary.raised
          THEN /\ Finish(k, summary.exc)
               /\ frames' = [frames EXCEPT ![k].pc = "raised"]
               /\ UNCHANGED heap
          ELSE /\ heap' = [heap EXCEPT ![FeatOf(k)] = Enriched(props, frames[k].photos, summary)]
               /\ IF args.delay # 0
                    THEN /\ frames' = [frames EXCEPT ![k].pc = "courtesy"]
                         /\ UNCHANGED <<futs, ac>>
                    ELSE /\ Finish(k, "none")
                         /\ frames' = [frames EXCEPT ![k].pc = "returned"]
  /\ UNCHANGED <<call, args, infile, data, pc, exc, feats, out_feats, outfile, http_log, sleep_log>>

\* lines 166-167: time.sleep raises ValueError for a negative length
Courtesy(k) ==
  /\ frames[k].pc = "courtesy"
  /\ IF args.delay < 0
       THEN /\ Finish(k, "ValueError")
            /\ frames' = [frames EXCEPT ![k].pc = "raised"]
            /\ UNCHANGED sleep_log
       ELSE /\ sleep_log' = [sleep_log EXCEPT ![k] = Append(@, args.delay)]
            /\ Finish(k, "none")
            /\ frames' = [frames EXCEPT ![k].pc = "returned"]
  /\ UNCHANGED <<call, args, infile, data, heap, pc, exc, feats, out_feats, outfile, http_log>>

Next ==
  \/ Slice
  \/ Submit
  \/ AsCompleted
  \/ CollectFinished
  \/ CollectNext
  \/ Shutdown
  \/ Assign
  \/ WriteOutput
  \/ \E k \in 1..Len(futs) : StartTask(k)
  \/ \E k \in 1..Len(futs) : FetchAttempt(k)
  \/ \E k \in 1..Len(futs) : FetchBackoff(k)
  \/ \E k \in 1..Len(futs) : Merge(k)
  \/ \E k \in 1..Len(futs) : Courtesy(k)

Spec == Init /\ [][Next]_vars

(***************************************************************************)
(* One feature through process_feature, over a wide range of property bags *)
(* and every behaviour of the server                                       *)
(***************************************************************************)
\* a dict of the entries of rec that are not Absent
MkDict(rec) == PyDict([k \in {x \in DOMAIN rec : rec[x] # Absent} |-> rec[k]])

OldPhoto == <<"https:", "//", "www.refuges.info", "/", "photos_points", "/", "9", ".jpg">>

EnrichBags ==
  {MkDict([nom |-> Name("e"), lien |-> l, url |-> u, info_comp |-> ic, places |-> pl,
           thumbnail |-> th.thumbnail, photos |-> th.photos]) :
     l \in {Absent, PyNone, PyStr(<<>>), PyStr(UrlFlaky), PyStr(UrlDown)},
     u \in {Absent, PyStr(<<>>), PyStr(UrlFlaky)},
     ic \in {Absent, GoodInfo, PyStr(<<"o", "u", "i">>), PyJsonText(TRUE, GoodInfo),
             PyJsonText(FALSE, EmptyDict), PyInt(5)},
     pl \in {Absent, PyDict([valeur |-> PyStr(<<"4">>)])},
     th \in {[thumbnail |-> Absent, photos |-> Absent],
             [thumbnail |-> PyStr(OldPhoto), photos |-> PyList(<<OldPhoto>>)]}}
  \cup {Absent, PyNone, EmptyDict}

OneFeature(Bags) == {[features |-> PyList(<<b>>)] : b \in Bags}

InitEnrich ==
  InitWith(OneFeature(EnrichBags), [concurrency : {1}, delay : Delays, max : {0}])

SpecEnrich == InitEnrich /\ [][Next]_vars

(***************************************************************************)
(* summarize_amenities called directly                                     *)
(***************************************************************************)
Valeur(v) == PyDict([valeur |-> v])

\* the six facility keys, each "1" or missing
FlagDicts ==
  {MkDict([eau |-> e, bois |-> b, poele |-> p, latrines |-> l, cheminee |-> c,
           couvertures |-> k]) :
     e \in {Absent, Valeur(PyStr(<<"1">>))}, b \in {Absent, Valeur(PyStr(<<"1">>))},
     p \in {Absent, Valeur(PyStr(<<"1">>))}, l \in {Absent, Valeur(PyStr(<<"1">>))},
     c \in {Absent, Valeur(PyStr(<<"1">>))}, k \in {Absent, PyStr(<<"1">>)}}

\* the shapes one facility entry can take
RawEntries ==
  {PyNone, PyStr(<<"1">>), PyStr(<<" ", "1", "\n">>), PyStr(<<"0">>), PyStr(<<"1", "0">>),
   PyStr(<<>>), PyInt(1), PyInt(0), PyBool(TRUE), PyFloat(1, 0), PyList(<<PyInt(1)>>),
   Valeur(PyStr(<<"1">>)), Valeur(PyInt(1)), Valeur(PyStr(<<"0">>)), Valeur(PyNone),
   Valeur(Valeur(PyStr(<<"1">>))), EmptyDict, PyDict([autre |-> PyStr(<<"1">>)])}

EntryDicts ==
  {MkDict([eau |-> r, poele |-> r2, couchage |-> d, feu |-> d]) :
     r \in RawEntries, r2 \in {Absent, PyInt(1)}, d \in {Absent, Valeur(PyStr(<<"1">>))}}

\* the facility structure: missing, a mapping, JSON text, any other value
InfoValues ==
  FlagDicts \cup EntryDicts
    \cup {PyJsonText(TRUE, d) : d \in {EmptyDict, GoodInfo}}
    \cup {Absent, PyNone, PyJsonText(FALSE, EmptyDict), PyStr(<<"o", "u", "i">>),
          PyStr(<<"[", "]">>), PyStr(<<>>), PyInt(5), PyInt(0), PyBool(TRUE), PyBool(FALSE),
          PyFloat(1, 5), PyList(<<PyInt(1)>>), PyList(<<>>)}

\* the capacity structure: missing, a mapping, JSON text, any other value
PlacesValues ==
  {Absent, PyNone, Valeur(PyStr(<<"4">>)), Valeur(PyStr(<<"0">>)), Valeur(PyInt(4)),
   Valeur(PyStr(<<" ", "1", "2">>)), Valeur(PyStr(<<"x">>)), Valeur(PyStr(<<"-", "1">>)),
   Valeur(Valeur(PyInt(4))), Valeur(PyFloat(4, 0)), EmptyDict,
   PyJsonText(TRUE, Valeur(PyStr(<<"4">>))), PyJsonText(FALSE, EmptyDict),
   PyStr(<<"4">>), PyStr(<<"x">>), PyInt(4), PyInt(0), PyBool(TRUE), PyFloat(4, 0),
   PyList(<<PyInt(4)>>)}

SummarizeInputs ==
  {MkDict([nom |-> Name("s"), info_comp |-> ic, places |-> pl]) :
     ic \in InfoValues, pl \in PlacesValues}

pipeline == <<args, infile, data, heap, pc, exc, feats, futs, frames, ac, out_feats, outfile,
              http_log, sleep_log>>

\* no run of main(): an empty document, already written
InitIdle ==
  /\ args = [concurrency |-> 1, delay |-> 0, max |-> 0]
  /\ infile = [features |-> PyList(<<>>)]
  /\ data = [features |-> PyList(<<>>)]
  /\ heap = <<>>
  /\ pc = "done"
  /\ exc = "none"
  /\ feats = <<>>
  /\ futs = <<>>
  /\ frames = <<>>
  /\ ac = [installed |-> TRUE, finished |-> {}, queue |-> <<>>]
  /\ out_feats = <<>>
  /\ outfile = [written |-> TRUE, features |-> <<>>]
  /\ http_log = <<>>
  /\ sleep_log = <<>>

InitSummarize ==
  /\ InitIdle
  /\ call \in {[fn |-> "summarize_amenities", arg |-> p, done |-> FALSE,
                result |-> [raised |-> FALSE]] : p \in SummarizeInputs}

\* lines 80-127
CallSummarize ==
  /\ call.fn = "summarize_amenities"
  /\ ~call.done
  /\ call' = [call EXCEPT !.done = TRUE, !.result = summarize_amenities(call.arg)]
  /\ UNCHANGED pipeline

SpecSummarize == InitSummarize /\ [][CallSummarize]_vars

(***************************************************************************)
(* extract_photos_from_html called directly                                *)
(***************************************************************************)
MaxImgs == 2

Logo == <<"/", "images", "/", "logo", ".png">>
PhotoUpper == <<"/", "PHOTOS_POINTS", "/", "3", ".JPG">>

\* the values an attribute of an img can have: none, a photo as a relative
\* URL, the same photo as an absolute URL and between blanks, a photo as a
\* scheme-relative URL, one in upper case, an image that is not a photo
AttrValues ==
  {PyNone, PyStr(PhotoA), PyStr(BASE \o PhotoA), PyStr(<<" ">> \o PhotoA \o <<"\n">>),
   PyStr(PhotoB), PyStr(PhotoUpper), PyStr(Logo)}

ExtractInputs == Lists({Img(a, b) : a \in AttrValues, b \in AttrValues}, MaxImgs)

InitExtract ==
  /\ InitIdle
  /\ call \in {[fn |-> "extract_photos_from_html", arg |-> h, done |-> FALSE,
                result |-> <<>>] : h \in ExtractInputs}

\* lines 54-78
CallExtract ==
  /\ call.fn = "extract_photos_from_html"
  /\ ~call.done
  /\ call' = [call EXCEPT !.done = TRUE, !.result = extract_photos_from_html(call.arg)]
  /\ UNCHANGED pipeline

SpecExtract == InitExtract /\ [][CallExtract]_vars

(***************************************************************************)
(* normalize_abs called directly                                           *)
(***************************************************************************)
MaxSegs == 2

Hosts == {"www.refuges.info", "cdn.example.org"}
Segs == {"a", "b", ".", ".."}

\* what a url starts with: nothing, a scheme alone, a host (scheme-relative),
\* a scheme and a host
UrlPrefixes ==
  {<<>>, <<"https:">>}
    \cup {<<"//", h>> : h \in Hosts}
    \cup {<<sch, "//", h>> : sch \in {"https:", "http:", "HTTP:", "HTTPS:", "ftp:"}, h \in Hosts}

\* the urls: a prefix and a path of at most MaxSegs segments; a path that
\* follows a host starts with "/"
UrlInputs ==
  {pre \o lead \o Join("/", segs) :
     pre \in UrlPrefixes, lead \in {<<>>, <<"/">>}, segs \in Lists(Segs, MaxSegs)}
    \ {pre \o Join("/", segs) :
         pre \in {u \in UrlPrefixes : Len(u) >= 2}, segs \in Lists(Segs, MaxSegs) \ {<<>>}}

InitNormalize ==
  /\ InitIdle
  /\ call \in {[fn |-> "normalize_abs", arg |-> u, done |-> FALSE, result |-> <<>>] :
                u \in UrlInputs}

\* lines 45-52
CallNormalize ==
  /\ call.fn = "normalize_abs"
  /\ ~call.done
  /\ call' = [call EXCEPT !.done = TRUE, !.result = normalize_abs(call.arg)]
  /\ UNCHANGED pipeline

SpecNormalize == InitNormalize /\ [][CallNormalize]_vars

(***************************************************************************)
(* Properties                                                              *)
(***************************************************************************)
\* the property bag feature id had in the input file
Original(id) == infile.features.items[id]
\* main() has ended, normally or with an exception
Stopped == pc \in {"done", "raised"}
Capped == args.max > 0
Min(a, b) == IF a < b THEN a ELSE b

\* the feature has no page URL: no property bag, or neither lien nor url in it,
\* or only empty ones
HasNoUrl(bag) ==
  \/ ~IsDict(bag)
  \/ \A key \in {"lien", "url"} : key \notin DOMAIN bag.d \/ ~Truthy(bag.d[key])

\* C1: with no cap, the features written are in input order: the feature at
\* position i of the output is the input feature i
C1_OutputInInputOrder ==
  (outfile.written /\ ~Capped) =>
    \A i \in 1..Len(outfile.features) : outfile.features[i].id = i

\* C2: with a cap N > 0 on M features the output has M features, those after
\* position N are the input features, untouched, and position i <= N holds
\* input feature i
C2_CapKeepsTailAndOrder ==
  (outfile.written /\ Capped) =>
    LET M == NumFeatures(infile)
        N == Min(args.max, M)
    IN /\ Len(outfile.features) = M
       /\ \A i \in (N + 1)..M : outfile.features[i] = [id |-> i, properties |-> Original(i)]
       /\ \A i \in 1..N : outfile.features[i].id = i

\* C3: whenever the output is written it has as many features as the input
\* and every input feature is in it exactly once
C3_CardinalityPreserved ==
  outfile.written =>
    /\ Len(outfile.features) = NumFeatures(infile)
    /\ \A id \in 1..NumFeatures(infile) :
         Cardinality({i \in 1..Len(outfile.features) : outfile.features[i].id = id}) = 1

\* three features, a cap of two, the two processed features swapped by the
\* completion order
C3_Witness ==
  /\ outfile.written
  /\ Len(outfile.features) = 3
  /\ args.max = 2
  /\ outfile.features[1].id = 2

\* C4: when the fetch of a feature with a URL has failed on every attempt,
\* process_feature does not raise, and it returns the feature with photos = [],
\* photos_at set, and the amenities and text summarize_amenities gives for the
\* feature's own properties
C4_FetchFailureAbsorbed ==
  \A k \in 1..Len(futs) :
    frames[k].fetched = "raised" =>
      /\ frames[k].pc # "raised"
      /\ frames[k].pc = "returned" =>
           LET summary == summarize_amenities(Original(FeatOf(k)))
               bag == heap[FeatOf(k)].d
           IN /\ futs[k].exc = "none"
              /\ bag.photos = PyList(<<>>)
              /\ "photos_at" \in DOMAIN bag
              /\ ~summary.raised
              /\ bag.amenities = PyDict(summary.amenities)
              /\ bag.amenities_text = PyStr(summary.text)

\* C5: a feature without a page URL keeps its property bag as it was, no GET
\* is issued for it, no sleep is made for it, and process_feature returns it
C5_NoUrlPassesThrough ==
  \A k \in 1..Len(futs) :
    HasNoUrl(Original(FeatOf(k))) =>
      /\ heap[FeatOf(k)] = Original(FeatOf(k))
      /\ http_log[k] = <<>>
      /\ sleep_log[k] = <<>>
      /\ frames[k].pc \in {"queued", "returned"}
      /\ futs[k].exc = "none"

\* a returned feature whose lien is null and whose url is the empty string,
\* in a run with a courtesy delay
C5_Witness ==
  \E k \in 1..Len(futs) :
    /\ frames[k].pc = "returned"
    /\ IsDict(Original(FeatOf(k)))
    /\ DictGet(Original(FeatOf(k)), "lien") = PyNone
    /\ "url" \in DOMAIN Original(FeatOf(k)).d
    /\ Original(FeatOf(k)).d.url = PyStr(<<>>)
    /\ "info_comp" \in DOMAIN Original(FeatOf(k)).d
    /\ args.delay > 0

\* C6: every run ends with the output written and every submitted feature
\* collected; none ends with an exception
C6_BatchCompletes ==
  Stopped => /\ pc = "done"
             /\ outfile.written
             /\ Len(out_feats) = Len(feats)

\* C7: when the enrichment of a feature raises, the other features are still
\* enriched and are in the written output
C7_FailureIsolated ==
  Stopped =>
    \A k \in 1..Len(futs) : \A j \in 1..Len(futs) :
      (futs[k].exc # "none" /\ futs[j].exc = "none") =>
        /\ outfile.written
        /\ \E i \in 1..Len(outfile.features) :
             /\ outfile.features[i].id = FeatOf(j)
             /\ HasNoUrl(Original(FeatOf(j)))
                  \/ "photos_at" \in DOMAIN outfile.features[i].properties.d

\* C8: fetch_point_html issues at most 3 GETs; a successful attempt is the
\* last one and its body is what is returned; after 3 failed attempts no other
\* is made and the exception raised is the one of the third attempt
C8_FetchRetryPolicy ==
  \A k \in 1..Len(futs) :
    LET log == http_log[k]
        f == frames[k]
        n == Len(log)
    IN /\ n <= 3
       /\ \A j \in 1..(n - 1) : ~RespOk(log[j])
       /\ (n > 0 /\ RespOk(log[n])) => (f.fetched = "returned" /\ f.html = log[n].text)
       /\ f.fetched = "returned" => (n > 0 /\ RespOk(log[n]))
       /\ (n = 3 /\ ~RespOk(log[3])) => f.pc # "get"
       /\ f.fetched = "raised" =>
            /\ n = 3
            /\ ~RespOk(log[3])
            /\ f.fetch_exc = [exc |-> IF log[3].raised THEN log[3].exc ELSE "RuntimeError",
                              arg |-> log[3].status,
                              at |-> 2]

\* three failed attempts of three kinds: a connection error, a 404, a timeout
C8_Witness ==
  \E k \in 1..Len(futs) :
    /\ frames[k].fetched = "raised"
    /\ http_log[k][1] = Fault("ConnectionError")
    /\ http_log[k][2] = Response(404, <<>>)
    /\ http_log[k][3] = Fault("Timeout")
    /\ frames[k].fetch_exc.exc = "Timeout"

\* C9: once process_feature has returned a feature that has a URL, the bag has
\* a thumbnail exactly when photos is not empty, and the thumbnail is photos[0]
C9_ThumbnailIffPhotos ==
  \A k \in 1..Len(futs) :
    (frames[k].pc = "returned" /\ ~HasNoUrl(Original(FeatOf(k)))) =>
      LET bag == heap[FeatOf(k)].d
      IN /\ "thumbnail" \in DOMAIN bag <=> bag.photos.items # <<>>
         /\ "thumbnail" \in DOMAIN bag => bag.thumbnail = PyStr(bag.photos.items[1])

\* the value cannot be resolved to a mapping: it is there and is neither a
\* mapping nor well-formed JSON text
Unresolvable(bag, key) ==
  /\ key \in DOMAIN bag.d
  /\ Truthy(bag.d[key])
  /\ ~IsDict(bag.d[key])
  /\ ~(bag.d[key].t = "jsontext" /\ bag.d[key].wellformed)

\* C10: summarize_amenities never raises; an info_comp that cannot be resolved
\* to a mapping gives six false flags, a places that is malformed JSON text
\* gives capacity 0 (couchage is then couvertures)
C10_SummarizeNeverRaises ==
  (call.fn = "summarize_amenities" /\ call.done) =>
    /\ ~call.result.raised
    /\ Unresolvable(call.arg, "info_comp") =>
         \A key \in {"eau", "bois", "poele", "latrines", "cheminee", "couvertures"} :
           ~call.result.amenities[key]
    /\ (Unresolvable(call.arg, "places") /\ call.arg.d.places.t = "jsontext") =>
         call.result.amenities.couchage = call.result.amenities.couvertures

\* summarize_amenities has been called and has returned
Summarized == call.fn = "summarize_amenities" /\ call.done /\ ~call.result.raised

\* the structure stored under key, JSON text decoded
Decoded(bag, key) ==
  IF key \notin DOMAIN bag.d THEN Absent
  ELSE IF bag.d[key].t = "jsontext" /\ bag.d[key].wellformed THEN bag.d[key].doc
  ELSE bag.d[key]

\* the value of a raw entry: its valeur when it is a mapping, else itself
ValueOf(raw) ==
  IF IsDict(raw) THEN (IF "valeur" \in DOMAIN raw.d THEN raw.d.valeur ELSE Absent) ELSE raw

\* the capacity a bag declares: the integer its places value denotes, else 0
DeclaredCapacity(bag) ==
  LET v == ValueOf(Decoded(bag, "places"))
  IN IF v.t = "int" THEN v.n
     ELSE IF v.t = "str" /\ ParseInt(v.s).ok THEN ParseInt(v.s).n
     ELSE 0

\* the raw entry of a facility key in the facility structure of a bag
InfoEntry(bag, key) ==
  LET ic == Decoded(bag, "info_comp")
  IN IF IsDict(ic) /\ key \in DOMAIN ic.d THEN ic.d[key] ELSE Absent

\* C11: in the amenities summarize_amenities returns, couchage is (capacity > 0)
\* or couvertures and feu is poele or cheminee, the capacity being the integer
\* the places value denotes (0 when there is none); couchage and feu entries of
\* info_comp play no part
C11_DerivedFlags ==
  Summarized =>
    LET a == call.result.amenities
    IN /\ a.couchage = (DeclaredCapacity(call.arg) > 0 \/ a.couvertures)
       /\ a.feu = (a.poele \/ a.cheminee)

\* info_comp says couchage = 1 and feu = 1, and the summary has neither
C11_Witness ==
  /\ Summarized
  /\ InfoEntry(call.arg, "couchage") = Valeur(PyStr(<<"1">>))
  /\ InfoEntry(call.arg, "feu") = Valeur(PyStr(<<"1">>))
  /\ ~call.result.amenities.couchage
  /\ ~call.result.amenities.feu

\* C12: each of the six flags is true exactly when the value of its entry
\* (the valeur of a mapping, else the entry itself), as a string without its
\* surrounding whitespace, is "1"; no entry or a mapping without valeur is false
C12_FlagIffOne ==
  Summarized =>
    \A key \in {"eau", "bois", "poele", "latrines", "cheminee", "couvertures"} :
      LET v == ValueOf(InfoEntry(call.arg, key))
      IN call.result.amenities[key] = (v # Absent /\ Strip(ToStr(v)) = <<"1">>)

\* the entry of eau is the string " 1\n" and the flag is true
C12_Witness ==
  /\ Summarized
  /\ InfoEntry(call.arg, "eau") = PyStr(<<" ", "1", "\n">>)
  /\ call.result.amenities.eau

\* the labels of the true flags among couchage, feu, eau, latrines, in that order
ShownLabels(a) == SelectSeq(<<"couchage", "feu", "eau", "latrines">>, LAMBDA l : a[l])

\* C13: the text is the labels of the true flags among couchage, feu, eau,
\* latrines, in that order, with the separator between two labels, and the
\* placeholder when none is true; bois, poele, cheminee and couvertures are not
\* in it
C13_TextOfFourFlags ==
  Summarized =>
    LET shown == ShownLabels(call.result.amenities)
    IN call.result.text =
         IF shown = <<>> THEN <<"--">>
         ELSE [i \in 1..(2 * Len(shown) - 1) |->
                 IF i % 2 = 1 THEN shown[(i + 1) \div 2] ELSE " . "]

\* couchage and latrines but neither feu nor eau, with bois and couvertures true
C13_Witness ==
  /\ Summarized
  /\ call.result.amenities.bois
  /\ call.result.amenities.couvertures
  /\ ~call.result.amenities.feu
  /\ call.result.text = <<"couchage", " . ", "latrines">>

\* the attribute values extract_photos_from_html goes through, by position:
\* the src of each img in document order, then the data-src of each img
Candidate(html, i) ==
  IF i <= Len(html) THEN ImgAttr(html[i], "src") ELSE ImgAttr(html[i - Len(html)], "data-src")
\* the positions whose value is the URL of a photo
Matching(html) == {i \in 1..(2 * Len(html)) : MatchesPhoto(Candidate(html, i))}
\* the first position at which the photo u stands
FirstAt(html, u) ==
  CHOOSE i \in Matching(html) :
    /\ normalize_abs(Candidate(html, i)) = u
    /\ \A j \in Matching(html) : normalize_abs(Candidate(html, j)) = u => i <= j

\* C14: the list extract_photos_from_html returns has no two equal elements,
\* its elements are the normalized values of the attributes that match a photo
\* pattern and no others, and they are in the order of their first occurrence
\* in the sequence: every src in document order, then every data-src
C14_UniqueInFirstOccurrenceOrder ==
  (call.fn = "extract_photos_from_html" /\ call.done) =>
    LET r == call.result
        html == call.arg
    IN /\ \A i \in 1..Len(r) : \A j \in 1..Len(r) : i # j => r[i] # r[j]
       /\ {r[i] : i \in 1..Len(r)} = {normalize_abs(Candidate(html, i)) : i \in Matching(html)}
       /\ \A i \in 1..Len(r) : \A j \in 1..Len(r) :
            i < j => FirstAt(html, r[i]) < FirstAt(html, r[j])

\* the first img has a photo in data-src only, the second has another photo in
\* src (between blanks) and the same one, absolute, in data-src: the photo of
\* the second img comes first and once
C14_Witness ==
  /\ call.fn = "extract_photos_from_html"
  /\ call.done
  /\ call.arg = <<Img(PyNone, PyStr(PhotoB)),
                  Img(PyStr(<<" ">> \o PhotoA \o <<"\n">>), PyStr(BASE \o PhotoA))>>
  /\ call.result = <<BASE \o PhotoA, <<"https:">> \o PhotoB>>

\* the url has a scheme
HasScheme(url) == url # <<>> /\ Head(url) \in SchemeTokens
\* the url is a path, absolute or relative: it is not empty, has no scheme and
\* no host
IsPath(url) == url # <<>> /\ ~HasScheme(url) /\ Head(url) # "//"

\* C15, as stated: for every url without a scheme (empty, scheme-relative,
\* absolute or relative path), normalize_abs(url) starts with the base origin
C15_NoSchemeGivesBaseOrigin ==
  (call.fn = "normalize_abs" /\ call.done /\ ~HasScheme(call.arg)) =>
    StartsWith(call.result, BASE)

\* C15, amended: normalize_abs of an absolute or relative path starts with
\* the base origin; the empty url is returned as it is; a scheme-relative url
\* is returned with https: before it, whatever its host
C15_PathGivesBaseOrigin ==
  (call.fn = "normalize_abs" /\ call.done) =>
    /\ IsPath(call.arg) => StartsWith(call.result, BASE)
    /\ call.arg = <<>> => call.result = <<>>
    /\ StartsWith(call.arg, <<"//">>) => call.result = <<"https:">> \o call.arg

\* a relative path that climbs above the root
C15_Witness ==
  /\ call.fn = "normalize_abs"
  /\ call.done
  /\ call.arg = <<"..", "/", "a">>
  /\ call.result = BASE \o <<"/", "a">>

\* C16: fetch_point_html sleeps Backoff * 2^i after failed attempt i only when
\* another attempt follows: a successful call has made one sleep less than
\* GETs, and a call whose three attempts failed has slept twice, 0.8 s then
\* 1.6 s, with no sleep between the last attempt and the raise
C16_SleepOnlyBetweenAttempts ==
  \A k \in 1..Len(futs) :
    frames[k].pc = "merge" =>
      /\ Len(sleep_log[k]) = Len(http_log[k]) - 1
      /\ \A j \in 1..Len(sleep_log[k]) : sleep_log[k][j] = Backoff * Pow2(j - 1)
      /\ frames[k].fetched = "raised" => sleep_log[k] = <<Backoff, 2 * Backoff>>

\* C17: for a feature with a URL, process_feature makes no courtesy sleep
\* before the result fields are written, returns the feature without raising,
\* and has then made exactly one courtesy sleep, of the delay, when the delay is
\* positive and none when it is zero or negative (features whose summary
\* raises, claim C10, are left out)
C17_CourtesySleepIffPositive ==
  \A k \in 1..Len(futs) :
    LET bag == Original(FeatOf(k))
        f == frames[k]
        courtesy == SubSeq(sleep_log[k], f.i + 1, Len(sleep_log[k]))
    IN (~HasNoUrl(bag) /\ ~summarize_amenities(bag).raised) =>
         /\ f.pc # "raised"
         /\ f.pc \in {"queued", "get", "backoff", "merge", "courtesy"} => courtesy = <<>>
         /\ f.pc = "returned" =>
              /\ "photos_at" \in DOMAIN heap[FeatOf(k)].d
              /\ courtesy = IF args.delay > 0 THEN <<args.delay>> ELSE <<>>

\* C18: an input without a features key, or with a null one, is not fatal:
\* nothing is submitted and the run ends with the output written, with no cap
\* and with a cap N > 0
C18_MissingFeaturesNotFatal ==
  infile.features.t # "list" =>
    /\ futs = <<>>
    /\ Stopped => (pc = "done" /\ outfile.written)

\* the futures whose process_feature call is in progress
InProgress == {k \in 1..Len(frames) : frames[k].pc \in {"get", "backoff", "merge", "courtesy"}}

\* C19: at any time the number of enrichments in progress is at most
\* max(1, concurrency), so at most 1 for a concurrency of 0 or less, and no
\* feature is the work of two futures
C19_BoundedParallelism ==
  /\ Cardinality(InProgress) <= (IF args.concurrency >= 1 THEN args.concurrency ELSE 1)
  /\ \A j \in 1..Len(futs) : \A k \in 1..Len(futs) : j # k => FeatOf(j) # FeatOf(k)

\* a negative concurrency: one enrichment in progress while another waits
C19_Witness ==
  /\ args.concurrency < 0
  /\ Cardinality(InProgress) = 1
  /\ \E k \in 1..Len(futs) :
       frames[k].pc = "queued" /\ futs[k].state = "PENDING" /\ ~HasNoUrl(Original(FeatOf(k)))

\* C20: when main() replaces the feature list, and from then on, every
\* submitted enrichment has ended: no process_feature call is queued or in
\* progress while the output is assembled and written
C20_WriteAfterAllWorkers ==
  pc \in {"assign", "write", "done"} =>
    /\ Len(futs) = Len(feats)
    /\ \A k \in 1..Len(futs) : frames[k].pc \in {"returned", "raised"}

\* the output is written after two workers have fetched a page each, one of
\* them having made its courtesy sleep
C20_Witness ==
  /\ pc = "done"
  /\ outfile.written
  /\ args.concurrency = MaxConcurrency
  /\ \E j \in 1..Len(futs) : \E k \in 1..Len(futs) :
       /\ j # k
       /\ http_log[j] # <<>>
       /\ http_log[k] # <<>>
       /\ sleep_log[k] # <<>>
====
